---- MODULE Spec2Model ----
(***************************************************************************)
(* A model of pySigfox (src/pySigfox/pySigfox.py): the Sigfox client, its  *)
(* single-request read operations, device_create, and the paginated       *)
(* message walk of device_messages / device_messages_page under the two    *)
(* @sleep_and_retry @limits(calls=1, period=5) decorators.                 *)
(*                                                                         *)
(* Time is kept as ages (seconds since an instant), saturating at Period:  *)
(* the code only ever compares an elapsed time with the period, so an age  *)
(* of Period stands for "Period or more". A GET is answered within the     *)
(* second it is issued in; seconds pass between calls and in time.sleep.   *)
(***************************************************************************)
EXTENDS Integers, Sequences, FiniteSets, TLC

\* ------------------------------------------------------------- bounds
\* Longest cursor chain the backend holds for a device.
MaxPages == 2
\* Most records in one page.
MaxPageLen == 2
\* Most 429 answers a backend that stops answering 429 gives during one call.
Max429 == 1

\* ---------------------------------------------------- program constants
\* @limits(calls=1, period=5)
Calls == 1
Period == 5
\* RateLimitException('Exceeded Sigfox API rate limit', 5)
RetryDelay == 5

\* The interpreter's recursion limit, scaled to the model: one frame more
\* than the longest non-cyclic walk needs, so only cyclic chains hit it.
MaxDepth == MaxPages + 1

NoneVal == "<None>"
Logins == {NoneVal, "", "login"}
Passwords == {NoneVal, "", "secret"}
RawTexts == {"", "<html>Bad Gateway</html>"}

FnNames == {"device_messages", "device_messages_page"}

VARIABLES
    client,     \* the constructed Sigfox object, or NoClient
    limiter,    \* per decorated function: the RateLimitDecorator's state
    pc,         \* "idle" | "enter" | "wait" | "sleep" | "done"
    op,         \* the operation the caller last invoked
    stack,      \* the call frames of the running message walk, outermost first
    caught,     \* the exception sleep_and_retry is sleeping on, or NoExc
    chain,      \* the backend's pages for the walk, as far as it has served them
    budget,     \* 429 answers the backend still gives in this call
    outcome,    \* what the last operation gave the caller
    nreq,       \* HTTP requests issued by the last operation (saturating)
    lastReq,    \* the last HTTP request issued
    resp,       \* the last HTTP response received
    sinceReq,   \* age of the last message-retrieval GET (Period: none that recent)
    fetched,    \* pages of this call answered 200 with a data field
    got429,     \* pages of this call answered 429
    sawNoData   \* a page of this call was valid JSON without a data field

vars == <<client, limiter, pc, op, stack, caught, chain, budget, outcome,
          nreq, lastReq, resp, sinceReq, fetched, got429, sawNoData>>

\* Cap of the request counter nreq, which saturates there.
ReqCap == 3

Min(a, b) == IF a < b THEN a ELSE b

\* ------------------------------------------------------------ the client
NoClient == [made |-> FALSE, login |-> NoneVal, password |-> NoneVal,
             api_url |-> "", debug |-> FALSE]

\* Python truthiness of a str-or-None argument: `not x`.
Not(x) == x = NoneVal \/ x = ""

\* Sigfox.__init__: whether the constructor raises.
InitRaisesAnd(login, password) == Not(login) /\ Not(password)
InitRaises(login, password) == Not(login) \/ Not(password)

NewClient(login, password, debug) ==
    [made |-> TRUE, login |-> login, password |-> password,
     api_url |-> "https://api.sigfox.com/v2/", debug |-> debug]

\* ------------------------------------------------------------- outcomes
ConfigMessage == "Please define login and password when initiating pySigfox class!"

\* ------------------------------------------------------- HTTP requests
NoJson == [prefix |-> "", ids |-> <<>>, productCertificate |-> [t |-> "none", v |-> ""]]
NoRequest == [method |-> "", path |-> <<>>, json |-> NoJson]
Get(path) == [method |-> "GET", path |-> path, json |-> NoJson]
Post(path, json) == [method |-> "POST", path |-> path, json |-> json]
\* The URL of page p of the chain (page 1: devices/{id}/messages).
PageUrl(p) == <<"messages", "page", CASE p = 1 -> "1" [] p = 2 -> "2" [] p = 3 -> "3"
                                       [] OTHER -> "n">>

\* ------------------------------------------------------ response bodies
\* A body is its raw text; valid says whether r.json() parses it, and then
\* hasData / data / next are the envelope's data field and paging.next
\* (next = 0: no paging.next).
JsonBody(hasData, data, next) ==
    [valid |-> TRUE, hasData |-> hasData, data |-> data, next |-> next, raw |-> "{}"]
TextBody(raw) ==
    [valid |-> FALSE, hasData |-> FALSE, data |-> <<>>, next |-> 0, raw |-> raw]

\* r.text
Text(b) == b.raw

NoResponse == [status |-> 0, body |-> TextBody("")]

\* An exception: its type, its argument (the message; for the JSON decoder's
\* error the text it was given), and period_remaining (RateLimitException).
Exc(etype, earg, period) == [etype |-> etype, earg |-> earg, period |-> period]
NoExc == Exc("", "", 0)

\* What an operation gave its caller: a returned list of records (value), a
\* returned JSON document (doc), or a raised exception (exc).
NoDoc == TextBody("")
NoOutcome == [kind |-> "none", value |-> <<>>, doc |-> NoDoc, exc |-> NoExc]
Returned(v) == [kind |-> "returned", value |-> v, doc |-> NoDoc, exc |-> NoExc]
ReturnedDoc(b) == [kind |-> "returned", value |-> <<>>, doc |-> b, exc |-> NoExc]
Raised(e) == [kind |-> "raised", value |-> <<>>, doc |-> NoDoc, exc |-> e]


\* ------------------------------------------------------------ the backend
\* The chain of pages a walk meets, recorded as the backend serves it:
\* first is the page the walk starts at, lens[i] the number of records of
\* page first + i - 1, and tail what the last served page carries as
\* paging.next: "open" (not served yet), "end" (none), or "loop" (a cursor
\* back to page loop, served before).
NoChain == [first |-> 1, lens |-> <<>>, tail |-> "open", loop |-> 0]
NewChain(url) == [first |-> url, lens |-> <<>>, tail |-> "open", loop |-> 0]

LastPage(c) == c.first + Len(c.lens) - 1
Known(c, p) == p >= c.first /\ p <= LastPage(c)
Cyclic(c) == c.tail = "loop"
Ended(c) == c.tail = "end"

\* The records of page p, in the backend's order: record <<p, j>> is the
\* j-th of page p.
Records(p, n) == [j \in 1..n |-> <<p, j>>]
PageData(c, p) == Records(p, c.lens[p - c.first + 1])

\* paging.next of a served page p (0: none).
NextOf(c, p) ==
    IF p < LastPage(c) THEN p + 1
    ELSE IF c.tail = "loop" THEN c.loop
    ELSE 0

\* The pages p, p+1, ... of the chain up to its last, concatenated.
RECURSIVE ConcatFrom(_, _)
ConcatFrom(c, p) ==
    IF p > LastPage(c) THEN <<>> ELSE PageData(c, p) \o ConcatFrom(c, p + 1)

\* What the backend may hold for page p, the next page of chain c it has not
\* served yet: n records, and nxt as paging.next (0: none; p + 1: a further
\* page; a page served before: the chain refers back to itself).
Reveals(c, p) ==
    {[n |-> n, nxt |-> x] :
        n \in 0..MaxPageLen,
        x \in {0} \cup (c.first..p) \cup (IF p < MaxPages THEN {p + 1} ELSE {})}

Revealed(c, p, r) ==
    [c EXCEPT !.lens = Append(@, r.n),
              !.tail = IF r.nxt = 0 THEN "end"
                       ELSE IF r.nxt <= p THEN "loop" ELSE "open",
              !.loop = IF r.nxt # 0 /\ r.nxt <= p THEN r.nxt ELSE 0]

\* The body of the backend's 429 answer: a JSON error message.
TooManyRequests == JsonBody(FALSE, <<>>, 0)

\* The bodies the backend may answer a GET of page p with, each with the
\* chain as served after it: with status 429 its error message; otherwise the
\* page's envelope, an envelope without a data field, or text that is no JSON.
Answers(status, c, p) ==
    IF status = 429 THEN {[body |-> TooManyRequests, chain |-> c]} ELSE
    (IF Known(c, p)
     THEN {[body |-> JsonBody(TRUE, PageData(c, p), NextOf(c, p)), chain |-> c]}
     ELSE {[body |-> JsonBody(TRUE, Records(p, r.n), r.nxt),
            chain |-> Revealed(c, p, r)] : r \in Reveals(c, p)})
    \cup {[body |-> JsonBody(FALSE, <<>>, 0), chain |-> c]}
    \cup {[body |-> TextBody(raw), chain |-> c] : raw \in RawTexts}

Statuses == {200, 429}

\* --------------------------------------------------------------- time
\* d seconds pass.
Older(age, d) == Min(age + d, Period)
Advance(d) ==
    /\ limiter' = [f \in FnNames |->
                      [limiter[f] EXCEPT !.elapsed = Older(@, d)]]
    /\ sinceReq' = Older(sinceReq, d)

\* ------------------------------------------------------- initial state
\* The module has been imported (both decorators built their limiter:
\* last_reset = clock(), num_calls = 0) and no client constructed yet.
\* The backend either answers 429 to at most Max429 requests of a call, or
\* has no such limit.
Budgets == {[unlimited |-> FALSE, left |-> Max429], [unlimited |-> TRUE, left |-> 0]}
NoBudget == [unlimited |-> FALSE, left |-> 0]
NoDevice == [id |-> "", pac |-> ""]
NoType == [id |-> "", name |-> ""]
NoCert == [t |-> "none", v |-> ""]
\* An invocation: the method and the arguments the model keeps of it.
Call(name) == [name |-> name, start |-> 0, login |-> "", password |-> "",
               device |-> NoDevice, cert |-> NoCert, devicetype |-> NoType]
NoOp == Call("none")

Init ==
    /\ client = NoClient
    /\ limiter = [f \in FnNames |-> [elapsed |-> 0, num_calls |-> 0]]
    /\ pc = "idle"
    /\ op = NoOp
    /\ stack = <<>>
    /\ caught = NoExc
    /\ chain = NoChain
    /\ budget = NoBudget
    /\ outcome = NoOutcome
    /\ nreq = 0
    /\ lastReq = NoRequest
    /\ resp = NoResponse
    /\ sinceReq = Period
    /\ fetched = {}
    /\ got429 = {}
    /\ sawNoData = FALSE

\* What an operation that is no message walk leaves alone.
NoWalk ==
    UNCHANGED <<stack, caught, chain, budget, fetched, got429, sawNoData,
                limiter, sinceReq>>

\* ----------------------------------------------------------- __init__
Sigfox(login, password, debug) ==
    /\ pc = "idle"
    /\ ~client.made
    /\ pc' = "done"
    /\ op' = [Call("__init__") EXCEPT !.login = login, !.password = password]
    /\ IF InitRaises(login, password)
         THEN /\ outcome' = Raised(Exc("Exception", ConfigMessage, 0))
              /\ client' = client
         ELSE /\ outcome' = Returned(<<>>)
              /\ client' = NewClient(login, password, debug)
    /\ UNCHANGED <<nreq, lastReq, resp>>
    /\ NoWalk

\* ------------------------------------------ single-request read methods
ReadBodies ==
    {JsonBody(TRUE, <<>>, 0), JsonBody(TRUE, <<<<1, 1>>>>, 0), JsonBody(FALSE, <<>>, 0)}
        \cup {TextBody(raw) : raw \in RawTexts}

\* r.json() on a body that is no JSON raises the decoder's error, which
\* holds the text it was given.
JsonErrorNoDoc(b) == Exc("JSONDecodeError", "Expecting value", 0)
JsonError(b) == Exc("JSONDecodeError", Text(b), 0)

\* r.json()['data'] (also json.loads(r.text)['data'])
DataOf(b) ==
    IF ~b.valid THEN Raised(JsonError(b))
    ELSE IF ~b.hasData THEN Raised(Exc("KeyError", "data", 0))
    ELSE Returned(b.data)

\* One GET, answered by body b, and what the method makes of it.
SimpleRead(name, path, b, result) ==
    /\ pc = "idle"
    /\ client.made
    /\ pc' = "done"
    /\ op' = Call(name)
    /\ nreq' = 1
    /\ lastReq' = Get(path)
    /\ resp' = [status |-> 200, body |-> b]
    /\ outcome' = result
    /\ NoWalk
    /\ UNCHANGED client

device_types_list(b) ==
    SimpleRead("device_types_list", <<"device-types">>, b, DataOf(b))

device_info(device_id, b) ==
    SimpleRead("device_info", <<"devices/", device_id>>, b,
               IF b.valid THEN ReturnedDoc(b) ELSE Raised(JsonError(b)))

groups_list(b) ==
    SimpleRead("groups_list", <<"groups">>, b, DataOf(b))

device_list(device_type, b) ==
    SimpleRead("device_list", <<"devices", "?deviceTypeId=", device_type.id>>,
               b, DataOf(b))

\* -------------------------------------------------------- device_create
Devices == {[id |-> "1A2B", pac |-> "PAC1"], [id |-> "3C4D", pac |-> "PAC2"]}
DeviceTypes == {[id |-> "dt1", name |-> "first"], [id |-> "dt2", name |-> "second"]}
\* A certificate value: a str, or another object (here an int, by its digits).
Certs == {[t |-> "str", v |-> "P_0001"], [t |-> "int", v |-> "7"]}
CreateBodies == {JsonBody(FALSE, <<>>, 0), TextBody("")}

\* str(cert): a str is itself; an int becomes the str of its digits.
Str(x) == [t |-> "str", v |-> x.v]

\* The POST device_create issues.
DeviceCreateRequestByType(device, cert, devicetype) ==
    Post(<<"devicetypes/", devicetype.id, "/devices/bulk/create/async">>,
         [prefix |-> "api_added-",
          ids |-> <<[id |-> devicetype.id, pac |-> device.pac]>>,
          productCertificate |-> Str(cert)])
DeviceCreateRequest(device, cert, devicetype) ==
    Post(<<"devicetypes/", devicetype.id, "/devices/bulk/create/async">>,
         [prefix |-> "api_added-",
          ids |-> <<[id |-> device.id, pac |-> device.pac]>>,
          productCertificate |-> Str(cert)])

device_create(device, cert, devicetype, b) ==
    /\ pc = "idle"
    /\ client.made
    /\ pc' = "done"
    /\ op' = [Call("device_create") EXCEPT !.device = device, !.cert = cert,
                                           !.devicetype = devicetype]
    /\ nreq' = 1
    /\ lastReq' = DeviceCreateRequest(device, cert, devicetype)
    /\ resp' = [status |-> 200, body |-> b]
    /\ outcome' = IF b.valid THEN ReturnedDoc(b) ELSE Raised(JsonError(b))
    /\ NoWalk
    /\ UNCHANGED client

\* ------------------------------------------------- the message walk
Frame(fn, url) == [fn |-> fn, url |-> url, out |-> <<>>]
Top == stack[Len(stack)]
Front(st) == SubSeq(st, 1, Len(st) - 1)

StartWalk(fn, url, b) ==
    /\ pc = "idle"
    /\ client.made
    /\ op' = [Call(fn) EXCEPT !.start = url]
    /\ stack' = <<Frame(fn, url)>>
    /\ pc' = "enter"
    /\ chain' = NewChain(url)
    /\ budget' = b
    /\ UNCHANGED <<client, limiter, caught, outcome, nreq, lastReq, resp,
                   sinceReq, fetched, got429, sawNoData>>

\* The caller calls device_messages(device_id): the first page of the chain.
device_messages(b) == StartWalk("device_messages", 1, b)

\* The caller calls device_messages_page(url) at a cursor of the chain.
device_messages_page(url, b) == StartWalk("device_messages_page", url, b)

\* sleep_and_retry's `except RateLimitException`.
CatchesNothing(etype) == FALSE
CatchesAll(etype) == TRUE
Catches(etype) == etype = "RateLimitException"

\* `out += <the inner call's result>`
ExtendDropsOwn(out, more) == more
ExtendPrepends(out, more) == more \o out
Extend(out, more) == out \o more

\* A frame returns ret to the frames st below it; each appends what it gets
\* to its own page and returns that in turn. The value the caller gets.
RECURSIVE Unwind(_, _)
Unwind(st, ret) ==
    IF st = <<>> THEN ret
    ELSE Unwind(Front(st), Extend(st[Len(st)].out, ret))

Finish(o) ==
    /\ outcome' = o
    /\ stack' = <<>>
    /\ pc' = "done"
    /\ caught' = NoExc

\* Exception e leaves the top frame's function body.
Throw(e) ==
    IF Catches(e.etype)
    THEN \* the frame's own sleep_and_retry wrapper: sleep, then call again
         /\ pc' = "sleep"
         /\ caught' = e
         /\ UNCHANGED <<stack, outcome>>
    ELSE IF Len(stack) > 1 /\ e.etype = "KeyError"
    THEN \* the calling frame's `except KeyError: pass`, then `return out`
         Finish(Returned(Unwind(Front(Front(stack)), stack[Len(stack) - 1].out)))
    ELSE \* every frame's `except Exception: ... raise`
         Finish(Raised(e))

\* RateLimitDecorator.__period_remaining of limiter state L
PeriodRemaining(L) == Period - L.elapsed

\* The limiter state after the wrapper counted this call: the window is
\* reset when it has elapsed, then num_calls is incremented.
Counted(L) ==
    IF PeriodRemaining(L) <= 0
    THEN [elapsed |-> 0, num_calls |-> 1]
    ELSE [L EXCEPT !.num_calls = @ + 1]

\* Which limiter a decorated function runs under: each @limits(...) line
\* builds a RateLimitDecorator of its own.
LimiterOf(fn) == fn

\* The top frame's call passes through @limits: either the call is one too
\* many in the window (RateLimitException with the period remaining), or
\* the function body starts and issues its GET.
limits ==
    /\ pc = "enter"
    /\ LET f == LimiterOf(Top.fn)
           L == limiter[f]
       IN /\ limiter' = [limiter EXCEPT ![f] = Counted(L)]
          /\ IF Counted(L).num_calls > Calls
             THEN /\ Throw(Exc("RateLimitException", "too many calls",
                                PeriodRemaining(L)))
                  /\ UNCHANGED <<nreq, lastReq, sinceReq>>
             ELSE /\ pc' = "wait"
                  /\ nreq' = Min(nreq + 1, ReqCap)
                  /\ lastReq' = Get(PageUrl(Top.url))
                  /\ sinceReq' = 0
                  /\ UNCHANGED <<stack, caught, outcome>>
    /\ UNCHANGED <<client, op, chain, budget, resp, fetched, got429, sawNoData>>

\* time.sleep(exception.period_remaining), then the wrapper's loop calls the
\* same function with the same arguments again.
sleep_and_retry ==
    /\ pc = "sleep"
    /\ Advance(caught.period)
    /\ pc' = "enter"
    /\ caught' = NoExc
    /\ UNCHANGED <<client, op, stack, chain, budget, outcome, nreq, lastReq, resp,
                   fetched, got429, sawNoData>>

\* `if r.status_code == 429`
RateLimitedNever(status) == FALSE
RateLimited(status) == status = 429

\* The backend's answer (status, a.body) to the top frame's GET reaches the
\* function body: the code after requests.get in device_messages and
\* device_messages_page.
Response(status, a) ==
    /\ pc = "wait"
    \* the backend: a 429 uses up its budget; a page served is part of the chain
    /\ status = 429 => (budget.unlimited \/ budget.left > 0)
    /\ budget' = IF status = 429 /\ ~budget.unlimited
                 THEN [budget EXCEPT !.left = @ - 1] ELSE budget
    /\ got429' = IF status = 429 THEN got429 \cup {Top.url} ELSE got429
    /\ resp' = [status |-> status, body |-> a.body]
    \* the function body
    /\ LET b == a.body
       IN IF RateLimited(status)
          THEN /\ Throw(Exc("RateLimitException", "Exceeded Sigfox API rate limit",
                            RetryDelay))
               /\ UNCHANGED <<chain, fetched, sawNoData>>
          ELSE IF ~b.valid
          THEN /\ Throw(JsonError(b))
               /\ UNCHANGED <<chain, fetched, sawNoData>>
          ELSE IF ~b.hasData
          THEN /\ sawNoData' = TRUE
               /\ Throw(Exc("KeyError", "data", 0))
               /\ UNCHANGED <<chain, fetched>>
          ELSE /\ chain' = a.chain
               /\ fetched' = fetched \cup {Top.url}
               /\ IF b.next = 0
                  THEN \* KeyError on ['paging'], passed over: return out
                       Finish(Returned(Unwind(Front(stack), b.data)))
                  ELSE IF Len(stack) >= MaxDepth
                  THEN Throw(Exc("RecursionError",
                                 "maximum recursion depth exceeded", 0))
                  ELSE /\ stack' = Append([stack EXCEPT ![Len(stack)].out = b.data],
                                          Frame("device_messages_page", b.next))
                       /\ pc' = "enter"
                       /\ UNCHANGED <<caught, outcome>>
               /\ UNCHANGED sawNoData
    /\ UNCHANGED <<client, op, limiter, nreq, lastReq, sinceReq>>

device_messages_response ==
    /\ pc = "wait"
    /\ Top.fn = "device_messages"
    /\ \E s \in Statuses : \E a \in Answers(s, chain, Top.url) : Response(s, a)

device_messages_page_response ==
    /\ pc = "wait"
    /\ Top.fn = "device_messages_page"
    /\ \E s \in Statuses : \E a \in Answers(s, chain, Top.url) : Response(s, a)

\* The caller has the operation's result or error in hand.
Taken ==
    /\ pc = "done"
    /\ pc' = "idle"
    /\ op' = NoOp
    /\ outcome' = NoOutcome
    /\ nreq' = 0
    /\ lastReq' = NoRequest
    /\ resp' = NoResponse
    /\ chain' = NoChain
    /\ budget' = NoBudget
    /\ fetched' = {}
    /\ got429' = {}
    /\ sawNoData' = FALSE
    /\ UNCHANGED <<client, limiter, stack, caught, sinceReq>>

\* A second passes between two calls of the caller.
Tick ==
    /\ pc = "idle"
    /\ Advance(1)
    /\ UNCHANGED <<client, pc, op, stack, caught, chain, budget, outcome, nreq,
                   lastReq, resp, fetched, got429, sawNoData>>

Next ==
    \/ \E l \in Logins, p \in Passwords, d \in BOOLEAN : Sigfox(l, p, d)
    \/ \E b \in ReadBodies : device_types_list(b)
    \/ \E d \in Devices, b \in ReadBodies : device_info(d.id, b)
    \/ \E b \in ReadBodies : groups_list(b)
    \/ \E t \in DeviceTypes, b \in ReadBodies : device_list(t, b)
    \/ \E d \in Devices, c \in Certs, t \in DeviceTypes, b \in CreateBodies :
          device_create(d, c, t, b)
    \/ \E b \in Budgets : device_messages(b)
    \/ \E b \in Budgets, u \in 1..MaxPages : device_messages_page(u, b)
    \/ limits
    \/ sleep_and_retry
    \/ device_messages_response
    \/ device_messages_page_response
    \/ Taken
    \/ Tick

Spec == Init /\ [][Next]_vars

\* The interpreter runs the call to its end, and the backend answers every
\* request.
WalkStep ==
    \/ limits
    \/ sleep_and_retry
    \/ device_messages_response
    \/ device_messages_page_response

FairSpec == Spec /\ WF_vars(WalkStep)

TypeOK ==
    /\ pc \in {"idle", "enter", "wait", "sleep", "done"}
    /\ \A f \in FnNames : limiter[f].elapsed \in 0..Period /\ limiter[f].num_calls \in 0..2
    /\ sinceReq \in 0..Period
    /\ caught.period \in 0..Period
    /\ (pc = "sleep") <=> (caught # NoExc)
    /\ Len(stack) <= MaxDepth
    /\ (pc \in {"idle", "done"}) <=> (stack = <<>>)

\* ===================================================================
\* The claims
\* ===================================================================
WalkOp == op.name \in FnNames
Walking == pc \in {"enter", "wait", "sleep"}
WalkDone == pc = "done" /\ WalkOp
ReadOps == {"device_types_list", "device_info", "groups_list", "device_list",
            "device_messages", "device_messages_page"}

C2_Claim ==
    [][(pc = "enter" /\ pc' = "wait") => sinceReq >= Period]_vars

Throttled == pc = "sleep" /\ caught.earg = "too many calls"

\* C5: a call that @limits finds one too many in the window is delayed, not
\* rejected: the local "too many calls" error never reaches the caller, the
\* client sleeps exactly the rest of the window, and then the call's GET is
\* issued.
C5_DelayedNotRejected ==
    /\ [](outcome.exc.earg # "too many calls")
    /\ [](Throttled =>
            /\ caught.period = PeriodRemaining(limiter[LimiterOf(Top.fn)])
            /\ caught.period > 0)
    /\ Throttled ~> (pc = "wait")

\* A call is sleeping on the limiter's exception.
C5_Witness == Throttled /\ nreq = 1 /\ Top.url = 2

C7_Construct ==
    (pc = "done" /\ op.name = "__init__") =>
        /\ nreq = 0 /\ lastReq = NoRequest
        /\ IF Not(op.login) \/ Not(op.password)
           THEN outcome = Raised(Exc("Exception", ConfigMessage, 0)) /\ ~client.made
           ELSE /\ outcome.kind = "returned" /\ client.made
                /\ client.login = op.login /\ client.password = op.password

\* The constructor was given a login and an empty password.
C7_Witness ==
    /\ pc = "done" /\ op.name = "__init__"
    /\ op.login = "login" /\ op.password = ""
    /\ outcome.kind = "raised"

\* C8: device_create issues exactly one request, a POST to
\* devicetypes/{id}/devices/bulk/create/async of the device type passed,
\* whose body has prefix "api_added-", ids holding exactly the id/pac pair
\* passed, and productCertificate the str of the certificate passed (the
\* certificate itself when it is a str): nothing of the body depends on the
\* device type.
C8_CreateBody ==
    (pc = "done" /\ op.name = "device_create") =>
        /\ nreq = 1
        /\ lastReq.method = "POST"
        /\ lastReq.path = <<"devicetypes/", op.devicetype.id,
                            "/devices/bulk/create/async">>
        /\ lastReq.json.prefix = "api_added-"
        /\ lastReq.json.ids = <<[id |-> op.device.id, pac |-> op.device.pac]>>
        /\ lastReq.json.productCertificate.t = "str"
        /\ lastReq.json.productCertificate.v = op.cert.v
        /\ op.cert.t = "str" => lastReq.json.productCertificate = op.cert

\* device_create was called with the second device and the second type.
C8_Witness ==
    /\ pc = "done" /\ op.name = "device_create"
    /\ op.device.id = "3C4D" /\ op.devicetype.id = "dt2" /\ op.cert.t = "str"

\* C9 (as claimed): a walk in which some fetched page was valid JSON without
\* a data field ends in an error, never in a normal return.
C9_Claim == (WalkDone /\ sawNoData) => outcome.kind = "raised"

\* C10: over a chain that does not refer back to itself no page already
\* fetched is requested again, a 429 leaves the frames as they are (so the
\* next request is for the same page), and a walk that reaches the chain's
\* end returns the concatenation of all pages from its start, each page's
\* records once, however many 429 answers it met.
C10_RetryKeepsPages ==
    ~Cyclic(chain) =>
        /\ pc = "wait" => Top.url \notin fetched
        /\ Walking =>
              /\ \A i \in 1..Len(stack) : stack[i].url = op.start + i - 1
              /\ fetched = op.start..(Top.url - 1)
              /\ \A i \in 1..(Len(stack) - 1) :
                    stack[i].out = PageData(chain, stack[i].url)
        /\ (WalkDone /\ Ended(chain)) =>
              outcome = Returned(ConcatFrom(chain, op.start))

\* A two-page walk has returned all 3 records although page 2 was answered
\* 429 first.
C10_Witness ==
    /\ WalkDone /\ Ended(chain) /\ got429 = {2}
    /\ chain.lens = <<1, 2>> /\ op.start = 1
    /\ outcome.value = <<<<1, 1>>, <<2, 1>>, <<2, 2>>>>

====
